---- MODULE Spec2Model ----
(***************************************************************************)
(* Flake Maker: the branching growth engine (flake.py), the digest replay  *)
(* and the steganographic codec and collage layout (randomSeed.py).        *)
(*                                                                         *)
(* Python floats are modelled by exact fixed-point integers:               *)
(*   humidity, temperature   1/1000                                        *)
(*   dt, elapsedTime, lastChild, buildup   1/10                            *)
(*   growth, thick           1/100                                         *)
(*   growth factor, length, coordinates   1/1000000                        *)
(*   angles                  pi/120 (1.5 degrees), modulo 240              *)
(* flake.py reads its configuration (MAX_GROWTH, INITIAL_THICKNESS,        *)
(* BRANCH_CROSSING, MAX_CYCLES, WINDOW_WIDTH) from settings.json, which    *)
(* randomSeed.py passes as constructor arguments; the model keeps it in    *)
(* the variable cfg, fixed at construction.                                *)
(***************************************************************************)
EXTENDS Integers, Sequences, FiniteSets, TLC

VARIABLES
    cfg,      \* the configuration the crystals are built with
    flakes,   \* the Snowflake objects created so far, in creation order
    nticks,   \* number of update calls made so far
    last,     \* record of the last update call: what it visited and purged
    runs,     \* the calls of flakeFromHash so far, one record each
    codec,    \* a call of hash2Img followed by calls of img2Hash
    collage,  \* a call of collageFromHashList followed by calls of readFlakes
    mapping,  \* a call of evoVal: its arguments and what it returned
    history   \* the update calls made on several crystals, in order

vars == <<cfg, flakes, nticks, last, runs, codec, collage, mapping, history>>

(***************************************************************************)
(* Bounds of the model.                                                    *)
(***************************************************************************)
MaxTicks == 4    \* update calls of the interactive program
HalfLen == 2     \* the 32 of sha[:32]: hex characters in half a digest
MaxGrid == 2     \* rows and columns of a collage
MaxDeepTicks == 10    \* update calls on the crystal that is grown deep

\* randomSeed.py fixes the digest at 64 hex characters (sha[:32] and
\* sha[32:], zfill(64)), 256 bits (zfill(256)) and 128 pixels (range(128)).
\* The model keeps these four in their proportions to HalfLen.
DigestLen == 2 * HalfLen
DigestBits == 4 * DigestLen
WindowPixels == DigestBits \div 2

\* A call either returns a value or raises an exception.
Raise == [ ok |-> FALSE ]

Return(v) == [ ok |-> TRUE, val |-> v ]

(***************************************************************************)
(* utils.py                                                                *)
(***************************************************************************)
Abs(x) == IF x < 0 THEN -x ELSE x

RECURSIVE GCD(_, _)
GCD(a, b) == IF b = 0 THEN Abs(a) ELSE GCD(b, a % Abs(b))

\* interp: target_min + (value - original_min) * (target_max - target_min)
\*         / (original_max - original_min), the fraction reduced before the
\* multiplication so that the product stays in range; exact whenever the
\* quotient is an integer of the target unit.
Interp(value, original_min, original_max, target_min, target_max) ==
    LET g   == GCD(target_max - target_min, original_max - original_min)
        num == (value - original_min) * ((target_max - target_min) \div g)
        den == (original_max - original_min) \div g
    IN  target_min + (IF den > 0 THEN num \div den ELSE (-num) \div (-den))

\* math.sin of k * 1.5 degrees, k = 0..60, in 1/1000.
SinTable ==
    << 0, 26, 52, 78, 105, 131, 156, 182, 208, 233, 259, 284, 309, 334, 358,
       383, 407, 431, 454, 477, 500, 522, 545, 566, 588, 609, 629, 649, 669,
       688, 707, 725, 743, 760, 777, 793, 809, 824, 839, 853, 866, 879, 891,
       903, 914, 924, 934, 943, 951, 959, 966, 972, 978, 983, 988, 991, 995,
       997, 999, 1000, 1000 >>

Sin(a) ==
    LET r == a % 240
    IN  IF r <= 60 THEN SinTable[r + 1]
        ELSE IF r <= 120 THEN SinTable[120 - r + 1]
        ELSE IF r <= 180 THEN -SinTable[r - 120 + 1]
        ELSE -SinTable[240 - r + 1]

Cos(a) == Sin(a + 60)

\* length (1/1000000) times a sine or cosine (1/1000), in 1/1000000.
Scale(length, trig) == (length \div 1000) * trig

(***************************************************************************)
(* flake.py: Line                                                          *)
(***************************************************************************)
NoLine == 0    \* None as a parent reference

\* Line.end
End(line) ==
    << Scale(line.length, Cos(line.angle)) + line.start[1],
       -Scale(line.length, Sin(line.angle)) + line.start[2] >>

\* Line.__init__: parent is a node id of sf, or NoLine.
LineInit(sf, angle, parent) ==
    [ angle     |-> angle,
      parent    |-> parent,
      depth     |-> IF parent = NoLine THEN 0 ELSE sf.nodes[parent].depth + 1,
      start     |-> IF parent = NoLine THEN <<0, 0>> ELSE End(sf.nodes[parent]),
      length    |-> 0,
      thick     |-> cfg.thick,
      buildup   |-> 0,
      growth    |-> cfg.growth,
      children  |-> <<>>,
      lastChild |-> sf.elapsedTime ]

OkToBranchAnyNumber(sf, l, temperature) ==
    LET self     == sf.nodes[l]
        timeReq  == (sf.elapsedTime - self.lastChild) > 10
        depthReq == sf.cycles < cfg.maxCycles
        tempReq  == temperature <= -10000
    IN  timeReq /\ depthReq /\ tempReq

OkToBranchNoCap(sf, l, temperature) ==
    LET self     == sf.nodes[l]
        timeReq  == (sf.elapsedTime - self.lastChild) > 10
        childReq == Len(self.children) < (8 - self.depth)
        tempReq  == temperature <= -10000
    IN  timeReq /\ childReq /\ tempReq

\* Line.okToBranch (growReq is computed by the code and not used).
OkToBranch(sf, l, temperature) ==
    LET self     == sf.nodes[l]
        timeReq  == (sf.elapsedTime - self.lastChild) > 10
        childReq == Len(self.children) < (8 - self.depth)
        depthReq == sf.cycles < cfg.maxCycles
        tempReq  == temperature <= -10000
    IN  timeReq /\ childReq /\ depthReq /\ tempReq

\* A branch that does not count itself.
BranchNoCount(sf, l, angle) ==
    LET sf1 == [sf EXCEPT !.nodes[l].lastChild = sf.elapsedTime]
        id  == Len(sf1.nodes) + 1
        NewBorns == LineInit(sf1, (sf1.nodes[l].angle - angle) % 240, l)
    IN  [sf1 EXCEPT !.nodes = Append([@ EXCEPT ![l].children = Append(@, id)],
                                     NewBorns),
                    !.branch = Append(@, id)]

\* A branch that makes two children at once and counts one event.
BranchTwins(sf, l, angle) ==
    LET sf1 == BranchNoCount(sf, l, angle)
    IN  BranchNoCount([sf1 EXCEPT !.cycles = @ + 1], l, angle)

\* Line.branch: the new Line is built after cycles and lastChild are set.
Branch(sf, l, angle) ==
    LET sf1 == [sf EXCEPT !.cycles = @ + 1,
                          !.nodes[l].lastChild = sf.elapsedTime]
        id  == Len(sf1.nodes) + 1
        NewBorns == LineInit(sf1, (sf1.nodes[l].angle - angle) % 240, l)
    IN  [sf1 EXCEPT !.nodes = Append([@ EXCEPT ![l].children = Append(@, id)],
                                     NewBorns),
                    !.branch = Append(@, id)]

(***************************************************************************)
(* flake.py: Snowflake                                                     *)
(***************************************************************************)
SnowflakeInitShared ==
    LET empty == [ center |-> <<cfg.size * 500000, cfg.size * 500000>>,
                   cycles |-> IF flakes = <<>> THEN 0
                              ELSE flakes[Len(flakes)].cycles,
                   elapsedTime |-> 0, branch |-> <<>>, nodes |-> <<>> ]
        root  == [LineInit(empty, 60, NoLine) EXCEPT !.start = empty.center]
    IN  [empty EXCEPT !.branch = <<1>>, !.nodes = <<root>>]

\* Snowflake.__init__: one root pointing up (pi/2), its start moved to the
\* center, which is half the side of the square image.
SnowflakeInit ==
    LET empty == [ center |-> <<cfg.size * 500000, cfg.size * 500000>>,
                   cycles |-> 0,
                   elapsedTime |-> 0, branch |-> <<>>, nodes |-> <<>> ]
        root  == [LineInit(empty, 60, NoLine) EXCEPT !.start = empty.center]
    IN  [empty EXCEPT !.branch = <<1>>, !.nodes = <<root>>]

\* list.remove: the first occurrence of x is taken out.
RECURSIVE Remove(_, _)
Remove(s, x) ==
    IF s = <<>> THEN <<>>
    ELSE IF Head(s) = x THEN Tail(s)
    ELSE <<Head(s)>> \o Remove(Tail(s), x)

InList(s, x) == \E k \in DOMAIN s : s[k] = x

\* A purge that also takes the purged line's children out of branch.
PurgeLineRecursive(sf, line) ==
    [sf EXCEPT !.branch = SelectSeq(Remove(@, line),
                              LAMBDA x : ~InList(sf.nodes[line].children, x)),
               !.nodes = [c \in DOMAIN @ |->
                            IF InList(sf.nodes[line].children, c)
                            THEN [@[c] EXCEPT !.parent = NoLine]
                            ELSE @[c]]]

\* A purge that makes the orphaned children roots of their own (depth 0).
PurgeLineReroot(sf, line) ==
    [sf EXCEPT !.branch = Remove(@, line),
               !.nodes = [c \in DOMAIN @ |->
                            IF InList(sf.nodes[line].children, c)
                            THEN [@[c] EXCEPT !.parent = NoLine, !.depth = 0]
                            ELSE @[c]]]

\* Snowflake.purge: the line leaves branch and its children lose their parent.
PurgeLine(sf, line) ==
    [sf EXCEPT !.branch = Remove(@, line),
               !.nodes = [c \in DOMAIN @ |->
                            IF InList(sf.nodes[line].children, c)
                            THEN [@[c] EXCEPT !.parent = NoLine]
                            ELSE @[c]]]

\* The sector test of Snowflake.update on a line's end point.
InSector(p) == -p[2] >= Abs((p[1] \div 1000) * 1732)

\* A growth factor that cold lowers instead of raising.
GrowthInterpColdShrinks(humidity, temperature) ==
    Interp(humidity, 0, 100000, 0, 700000)
    - Interp(temperature, -5000, -20000, 0, 300000)

\* growthInterp of Snowflake.updateBranch, in 1/1000000.
GrowthInterp(humidity, temperature) ==
    Interp(humidity, 0, 100000, 0, 700000)
    + Interp(temperature, -5000, -20000, 0, 300000)

\* A growth step whose thicken path is a second "if" that only asks for a
\* humidity below 50, so that it can follow the branch path.
GrowThickensToo(sf, l, humidity, temperature, dt) ==
    LET growthInterp == GrowthInterp(humidity, temperature)
        sf1 == [sf EXCEPT !.nodes[l].length = @ + 2 * growthInterp * dt,
                          !.nodes[l].growth = @ - 10 * dt]
        sf4 == IF growthInterp < 350000 /\ OkToBranch(sf1, l, temperature)
               THEN LET sf2 == [sf1 EXCEPT !.nodes[l].buildup = @ + 2 * dt]
                    IN  IF sf2.nodes[l].buildup >= 40
                        THEN LET angle == Interp(temperature, -10000, -20000,
                                                 20, 40)
                                 sf3   == Branch(sf2, l, angle)
                             IN  [sf3 EXCEPT !.nodes[l].buildup = 0,
                                             !.nodes[l].growth = @ - 2 * dt]
                        ELSE sf2
               ELSE sf1
    IN  IF humidity < 50000
        THEN [sf4 EXCEPT !.nodes[l].thick = @ + 4 * dt,
                         !.nodes[l].growth = @ - 1 * dt]
        ELSE sf4

\* A growth step whose thicken path does not ask for humidity > -4 *
\* temperature.
GrowThickensInCold(sf, l, humidity, temperature, dt) ==
    LET growthInterp == GrowthInterp(humidity, temperature)
        sf1 == [sf EXCEPT !.nodes[l].length = @ + 2 * growthInterp * dt,
                          !.nodes[l].growth = @ - 10 * dt]
    IN  IF growthInterp < 350000 /\ OkToBranch(sf1, l, temperature)
        THEN LET sf2 == [sf1 EXCEPT !.nodes[l].buildup = @ + 2 * dt]
             IN  IF sf2.nodes[l].buildup >= 40
                 THEN LET angle == Interp(temperature, -10000, -20000, 20, 40)
                          sf3   == Branch(sf2, l, angle)
                      IN  [sf3 EXCEPT !.nodes[l].buildup = 0,
                                      !.nodes[l].growth = @ - 2 * dt]
                 ELSE sf2
        ELSE IF growthInterp > 300000 /\ humidity < 50000
        THEN [sf1 EXCEPT !.nodes[l].thick = @ + 4 * dt,
                         !.nodes[l].growth = @ - 1 * dt]
        ELSE sf1

\* A growth step whose elongation costs no growth.
GrowForFree(sf, l, humidity, temperature, dt) ==
    LET growthInterp == GrowthInterp(humidity, temperature)
        sf1 == [sf EXCEPT !.nodes[l].length = @ + 2 * growthInterp * dt]
    IN  IF growthInterp < 350000 /\ OkToBranch(sf1, l, temperature)
        THEN LET sf2 == [sf1 EXCEPT !.nodes[l].buildup = @ + 2 * dt]
             IN  IF sf2.nodes[l].buildup >= 40
                 THEN LET angle == Interp(temperature, -10000, -20000, 20, 40)
                          sf3   == Branch(sf2, l, angle)
                      IN  [sf3 EXCEPT !.nodes[l].buildup = 0,
                                      !.nodes[l].growth = @ - 2 * dt]
                 ELSE sf2
        ELSE IF growthInterp > 300000 /\ humidity > -4 * temperature
                /\ humidity < 50000
        THEN [sf1 EXCEPT !.nodes[l].thick = @ + 4 * dt,
                         !.nodes[l].growth = @ - 1 * dt]
        ELSE sf1

\* The elongation and the branch and thicken paths of Snowflake.updateBranch
\* for a line with growth > 0 that passed the depth gate.
Grow(sf, l, humidity, temperature, dt) ==
    LET growthInterp == GrowthInterp(humidity, temperature)
        sf1 == [sf EXCEPT !.nodes[l].length = @ + 2 * growthInterp * dt,
                          !.nodes[l].growth = @ - 10 * dt]
    IN  IF growthInterp < 350000 /\ OkToBranch(sf1, l, temperature)
        THEN LET sf2 == [sf1 EXCEPT !.nodes[l].buildup = @ + 2 * dt]
             IN  IF sf2.nodes[l].buildup >= 40
                 THEN LET angle == Interp(temperature, -10000, -20000, 20, 40)
                          sf3   == Branch(sf2, l, angle)
                      IN  [sf3 EXCEPT !.nodes[l].buildup = 0,
                                      !.nodes[l].growth = @ - 2 * dt]
                 ELSE sf2
        ELSE IF growthInterp > 300000 /\ humidity > -4 * temperature
                /\ humidity < 50000
        THEN [sf1 EXCEPT !.nodes[l].thick = @ + 4 * dt,
                         !.nodes[l].growth = @ - 1 * dt]
        ELSE sf1

\* An updateBranch that purges every exhausted line, childless or not.
UpdateBranchPurgeLeaf(sf, l, humidity, temperature, dt) ==
    IF sf.nodes[l].growth > 0
    THEN IF sf.nodes[l].depth * 60000
            >= Interp(temperature, -5000, -20000, -60000, 45000 * sf.cycles)
         THEN Grow(sf, l, humidity, temperature, dt)
         ELSE sf
    ELSE PurgeLine(sf, l)

\* An updateBranch that lets a line without growth left go on while it has
\* no children.
UpdateBranchNoBudget(sf, l, humidity, temperature, dt) ==
    IF Len(sf.nodes[l].children) > 0 /\ sf.nodes[l].growth <= 0
    THEN PurgeLine(sf, l)
    ELSE IF sf.nodes[l].depth * 60000
            >= Interp(temperature, -5000, -20000, -60000, 45000 * sf.cycles)
    THEN Grow(sf, l, humidity, temperature, dt)
    ELSE sf

\* An updateBranch without the depth gate: every line with growth left acts.
UpdateBranchNoGate(sf, l, humidity, temperature, dt) ==
    IF sf.nodes[l].growth > 0
    THEN Grow(sf, l, humidity, temperature, dt)
    ELSE IF Len(sf.nodes[l].children) > 0
    THEN PurgeLine(sf, l)
    ELSE sf

\* Snowflake.updateBranch. The depth gate compares in 1/60000.
UpdateBranch(sf, l, humidity, temperature, dt) ==
    IF sf.nodes[l].growth > 0
    THEN IF sf.nodes[l].depth * 60000
            >= Interp(temperature, -5000, -20000, -60000, 45000 * sf.cycles)
         THEN Grow(sf, l, humidity, temperature, dt)
         ELSE sf
    ELSE IF Len(sf.nodes[l].children) > 0
    THEN PurgeLine(sf, l)
    ELSE sf

\* A loop body for lines whose start is the parent's end read anew: after
\* the line l is visited its children start where l now ends.
VisitMovesChildren(sf, l, humidity, temperature, dt) ==
    LET sf1 == IF cfg.crossing \/ InSector(End(sf.nodes[l]))
               THEN UpdateBranch(sf, l, humidity, temperature, dt)
               ELSE PurgeLine(sf, l)
    IN  [sf1 EXCEPT !.nodes =
            [ n \in DOMAIN sf1.nodes |->
                IF sf1.nodes[n].parent = l
                THEN [sf1.nodes[n] EXCEPT !.start = End(sf1.nodes[l])]
                ELSE sf1.nodes[n] ]]

\* A loop body that applies the sector test whatever BRANCH_CROSSING says.
VisitAlwaysSector(sf, l, humidity, temperature, dt) ==
    IF InSector(End(sf.nodes[l]))
    THEN UpdateBranch(sf, l, humidity, temperature, dt)
    ELSE PurgeLine(sf, l)

\* One iteration of the loop of Snowflake.update on the line l.
Visit(sf, l, humidity, temperature, dt) ==
    IF cfg.crossing \/ InSector(End(sf.nodes[l]))
    THEN UpdateBranch(sf, l, humidity, temperature, dt)
    ELSE PurgeLine(sf, l)

\* The loop "for l in currentBranch" of Snowflake.update. currentBranch is
\* the list self.branch itself, so the iterator's index i runs over the
\* list as purges shorten it and branch events lengthen it. st.visited
\* records the lines the loop body ran on, st.purged those it removed.
RECURSIVE UpdateLoop(_, _, _, _, _)
UpdateLoop(st, i, humidity, temperature, dt) ==
    IF i > Len(st.sf.branch) THEN st
    ELSE LET l   == st.sf.branch[i]
             sf2 == Visit(st.sf, l, humidity, temperature, dt)
             gone == ~InList(sf2.branch, l)
         IN  UpdateLoop([ sf      |-> sf2,
                          visited |-> Append(st.visited, l),
                          purged  |-> IF gone THEN Append(st.purged, l)
                                      ELSE st.purged ],
                        i + 1, humidity, temperature, dt)

YoungColor == <<42, 182, 232>>    \* color_young '#2ab6e8'

OldColor == <<192, 196, 207>>     \* color_old '#c0c4cf'

\* int() of a value held in 1/1000: the fraction is cut off towards zero.
IntOf(x) == IF x >= 0 THEN x \div 1000 ELSE -((-x) \div 1000)

\* Line.colorGradient: each channel is interp(value, 0, MAX_GROWTH, old,
\* young), which divides by MAX_GROWTH: ZeroDivisionError when it is 0.
ColorGradient(value) ==
    IF cfg.growth = 0 THEN Raise
    ELSE Return([ c \in 1..3 |->
                    IntOf(Interp(value, 0, cfg.growth,
                                 OldColor[c] * 1000, YoungColor[c] * 1000)) ])

\* The loop "while dad" of Line.draw.  A segment is named by the lines at
\* whose start it was mirrored, innermost first; cousins are the segments
\* made so far, drawn are those handed to drawLine.
RECURSIVE DrawLoop(_, _, _, _)
DrawLoop(sf, line, cousins, drawn) ==
    LET dad == sf.nodes[line].parent
    IN  IF dad = NoLine THEN drawn
        ELSE LET newCousins == [ i \in 1..Len(cousins) |->
                                    Append(cousins[i], line) ]
             IN  DrawLoop(sf, dad, cousins \o newCousins,
                          drawn \o newCousins)

\* Line.draw(angle): the segments it hands to drawLine, whose first use of
\* self.color raises when colorGradient does.
LineDraw(sf, l, angle) ==
    IF ~ColorGradient(sf.nodes[l].growth).ok THEN Raise
    ELSE Return([ i \in 1..Len(DrawLoop(sf, l, << <<>> >>, << <<>> >>)) |->
                    [ angle   |-> angle,
                      mirrors |-> DrawLoop(sf, l, << <<>> >>, << <<>> >>)[i] ] ])

\* Snowflake.drawBranches: every line of branch is painted in its colour
\* (Line.color is colorGradient of its growth).  Painting changes no state
\* of the crystal; the lines painted are returned, unless the colour of one
\* raises.
DrawBranches(sf) ==
    IF \E k \in DOMAIN sf.branch :
           ~ColorGradient(sf.nodes[sf.branch[k]].growth).ok
    THEN Raise
    ELSE Return(sf.branch)

\* Snowflake.update: the loop, then drawBranches; raised tells whether the
\* call ended in an exception.
Update(sf, humidity, temperature, dt) ==
    LET st == UpdateLoop([ sf |-> [sf EXCEPT !.elapsedTime = @ + dt],
                           visited |-> <<>>, purged |-> <<>> ],
                         1, humidity, temperature, dt)
    IN  [ sf |-> st.sf, visited |-> st.visited, purged |-> st.purged,
          raised |-> ~DrawBranches(st.sf).ok ]

(***************************************************************************)
(* randomSeed.py: digests, evoVal and the steganographic codec.  A digest  *)
(* is a sequence of one-character strings; an image is a sequence of rows  *)
(* of pixels <<r, g, b>>, so that numpy's pixels[lin, col] is              *)
(* image[lin + 1][col + 1].  A call either returns a value or raises.      *)
(***************************************************************************)
HexDigits ==
    << "0", "1", "2", "3", "4", "5", "6", "7",
       "8", "9", "a", "b", "c", "d", "e", "f" >>

IsHex(c) == \E k \in DOMAIN HexDigits : HexDigits[k] = c

\* int(c, 16) of one hex character.
Nibble(c) == (CHOOSE k \in DOMAIN HexDigits : HexDigits[k] = c) - 1

Round3Truncates(x) == x \div 1000

\* round(value, 3) of a value held in 1/1000000, as thousandths.
Round3(x) == (x + 500) \div 1000

\* evoVal: each character on its own, mapped from 0..15 to the target
\* range (in 1/1000000) and rounded to three decimals (in 1/1000); int
\* raises ValueError on a character that is not a hex digit.
EvoVal(hex_string, target_min, target_max) ==
    IF \E k \in DOMAIN hex_string : ~IsHex(hex_string[k]) THEN Raise
    ELSE Return([ k \in DOMAIN hex_string |->
                    Round3(Interp(Nibble(hex_string[k]), 0, 15,
                                  target_min, target_max)) ])

\* int(sha, 16) of a string of hex digits; ValueError on the empty string
\* and on any other character.
RECURSIVE HexValue(_)
HexValue(s) ==
    IF s = <<>> THEN 0
    ELSE 16 * HexValue(SubSeq(s, 1, Len(s) - 1)) + Nibble(s[Len(s)])

IntOfHex(sha) ==
    IF sha = <<>> \/ \E k \in DOMAIN sha : ~IsHex(sha[k]) THEN Raise
    ELSE Return(HexValue(sha))

\* bin(n)[2:]: the bits of n, most significant first, "0" for 0.
RECURSIVE Bin(_)
Bin(n) == IF n < 2 THEN <<n>> ELSE Append(Bin(n \div 2), n % 2)

\* hex(n)[2:]
RECURSIVE Hex(_)
Hex(n) ==
    IF n < 16 THEN <<HexDigits[n + 1]>>
    ELSE Append(Hex(n \div 16), HexDigits[(n % 16) + 1])

\* str.zfill: pads on the left up to width, never shortens.
ZFill(s, width, zero) ==
    IF Len(s) >= width THEN s
    ELSE [ k \in 1..(width - Len(s)) |-> zero ] \o s

NpIndexWrapAround(i, n) == IF n = 0 THEN 0 ELSE (i % n) + 1

\* numpy's index along an axis of n entries, as an index of the model's
\* sequence: negative indices count from the end, 0 stands for IndexError.
NpIndex(i, n) ==
    IF 0 <= i /\ i < n THEN i + 1
    ELSE IF -n <= i /\ i < 0 THEN n + i + 1
    ELSE 0

Height(image) == Len(image)

Width(image) == IF image = <<>> THEN 0 ELSE Len(image[1])

\* The loop of hash2Img from bit i (1-based) and column col of line 0: the
\* two bits replace the low bits of red and green.  Reading past the last
\* column, or past the last bit of an odd-length bit string, is IndexError.
RECURSIVE EmbedLoop(_, _, _, _)
EmbedLoop(pixels, bin_sha, i, col) ==
    IF i > Len(bin_sha) THEN Return(pixels)
    ELSE LET y == NpIndex(0, Height(pixels))
             x == NpIndex(col, Width(pixels))
         IN  IF y = 0 \/ x = 0 \/ i + 1 > Len(bin_sha) THEN Raise
             ELSE LET p == pixels[y][x]
                      r == (p[1] - (p[1] % 2)) + bin_sha[i]
                      g == (p[2] - (p[2] % 2)) + bin_sha[i + 1]
                  IN  EmbedLoop([pixels EXCEPT ![y][x] = <<r, g, p[3]>>],
                                bin_sha, i + 2, col + 1)

Hash2ImgClearsBlue(image, sha) ==
    LET n == IntOfHex(sha)
        steg == IF ~n.ok THEN Raise
                ELSE EmbedLoop(image, ZFill(Bin(n.val), DigestBits, 0), 1, 0)
    IN  IF ~steg.ok THEN Raise
        ELSE Return([steg.val EXCEPT ![1] =
                       [ col \in DOMAIN @ |->
                           << @[col][1], @[col][2],
                              @[col][3] - (@[col][3] % 2) >> ]])

Hash2ImgMsbLast(image, sha) ==
    LET n == IntOfHex(sha)
    IN  IF ~n.ok THEN Raise
        ELSE LET b == ZFill(Bin(n.val), DigestBits, 0)
             IN  EmbedLoop(image, [ k \in DOMAIN b |-> b[Len(b) + 1 - k] ],
                           1, 0)

\* hash2Img
Hash2Img(image, sha) ==
    LET n == IntOfHex(sha)
    IN  IF ~n.ok THEN Raise
        ELSE EmbedLoop(image, ZFill(Bin(n.val), DigestBits, 0), 1, 0)

\* The loop of img2Hash: i pixels to go, read from column col of line lin.
RECURSIVE ExtractLoop(_, _, _, _, _)
ExtractLoop(pixels, lin, col, i, extracted_bin) ==
    IF i = 0 THEN Return(extracted_bin)
    ELSE LET y == NpIndex(lin, Height(pixels))
             x == NpIndex(col, Width(pixels))
         IN  IF y = 0 \/ x = 0 THEN Raise
             ELSE LET p == pixels[y][x]
                  IN  ExtractLoop(pixels, lin, col + 1, i - 1,
                                  4 * extracted_bin + 2 * (p[1] % 2)
                                      + (p[2] % 2))

\* img2Hash
Img2Hash(image, pos) ==
    LET n == ExtractLoop(image, pos[1], pos[2], WindowPixels, 0)
    IN  IF ~n.ok THEN Raise
        ELSE Return(ZFill(Hex(n.val), DigestLen, "0"))

(***************************************************************************)
(* randomSeed.py: PillowFlake and flakeFromHash.                           *)
(***************************************************************************)
BgPixel == <<40, 41, 35>>    \* bg_color '#282923'

\* The pixel contents the model draws images from: the background colour,
\* black, white, and a pattern whose low bits vary from pixel to pixel.
PatternPixel(pat, lin, col) ==
    CASE pat = "bg"    -> BgPixel
      [] pat = "black" -> <<0, 0, 0>>
      [] pat = "white" -> <<255, 255, 255>>
      [] OTHER         -> << (37 * col + 11 * lin) % 256,
                             (101 * (col \div 2) + 7 * lin) % 256,
                             (col + lin) % 256 >>

\* Image.new(mode='RGB', size=(width, height)), filled with a pattern.
Canvas(width, height, pat) ==
    [ lin \in 1..height |-> [ col \in 1..width |->
                                 PatternPixel(pat, lin, col) ] ]

\* PillowFlake.image: a square of side size in the background colour.  The
\* strokes that drawLine paints on it are not modelled.
PillowFlakeImage == Canvas(cfg.size, cfg.size, "bg")

Min(a, b) == IF a <= b THEN a ELSE b

\* zip(evoH, evoT): pairs up to the shorter of the two lists.
Zip(a, b) == [ k \in 1..Min(Len(a), Len(b)) |-> <<a[k], b[k]>> ]

EvoPairsTemperatureFirst(sha) ==
    LET evoH == EvoVal(SubSeq(sha, 1, Min(HalfLen, Len(sha))),
                       0, 100 * 1000000)
        evoT == EvoVal(SubSeq(sha, HalfLen + 1, Len(sha)),
                       -20 * 1000000, -5 * 1000000)
    IN  IF ~evoH.ok \/ ~evoT.ok THEN Raise
        ELSE Return(Zip(evoT.val, evoH.val))

\* The head of flakeFromHash: sha[:32] gives the humidities, sha[32:] the
\* temperatures, and the loop runs over their zip.
EvoPairs(sha) ==
    LET evoH == EvoVal(SubSeq(sha, 1, Min(HalfLen, Len(sha))),
                       0, 100 * 1000000)
        evoT == EvoVal(SubSeq(sha, HalfLen + 1, Len(sha)),
                       -20 * 1000000, -5 * 1000000)
    IN  IF ~evoH.ok \/ ~evoT.ok THEN Raise
        ELSE Return(Zip(evoH.val, evoT.val))

\* The loop of flakeFromHash: update once per pair, in order.
RECURSIVE ReplayLoop(_, _, _)
ReplayLoop(sf, evo, dt) ==
    IF evo = <<>> THEN Return(sf)
    ELSE CHOOSE r \in { IF st.raised THEN Raise
                         ELSE ReplayLoop(st.sf, Tail(evo), dt)
                         : st \in {Update(sf, Head(evo)[1], Head(evo)[2],
                                           dt)} } : TRUE

\* flakeFromHash in one step, as collageFromHashList calls it: the image
\* with the digest embedded, beside the crystal that was grown for it.
FlakeFromHash(sha, dt) ==
    LET evo == EvoPairs(sha)
    IN  IF ~evo.ok THEN Raise
        ELSE LET Flake == ReplayLoop(SnowflakeInit, evo.val, dt)
                 steg_image == Hash2Img(PillowFlakeImage, sha)
             IN  IF ~Flake.ok THEN Raise
                 ELSE IF ~DrawBranches(Flake.val).ok THEN Raise
                 ELSE IF ~steg_image.ok THEN Raise
                 ELSE Return([ image |-> steg_image.val,
                               Flake |-> Flake.val ])

(***************************************************************************)
(* randomSeed.py: collageFromHashList and readFlakes.                      *)
(***************************************************************************)
\* Image.paste(img, (x, y)): img covers the collage from column x, line y.
Paste(image, img, x, y) ==
    [ lin \in 1..Height(image) |->
        [ col \in 1..Width(image) |->
            IF /\ lin - y \in 1..Height(img)
               /\ col - x \in 1..Width(img)
            THEN img[lin - y][col - x]
            ELSE image[lin][col] ] ]

FlakePosColumnMajor(p, columns, size) ==
    << ((p - 1) % columns) * size, ((p - 1) \div columns) * size >>

\* readFlakes: the position (lin, col) of flake p, counted from 1 row-wise.
FlakePos(p, columns, size) ==
    << ((p - 1) \div columns) * size, ((p - 1) % columns) * size >>

\* readFlakes on the list of flake numbers ps; an exception of img2Hash
\* ends the call.
RECURSIVE ReadLoop(_, _, _, _, _)
ReadLoop(image, columns, size, ps, hashList) ==
    IF ps = <<>> THEN Return(hashList)
    ELSE LET sha == Img2Hash(image, FlakePos(Head(ps), columns, size))
         IN  IF ~sha.ok THEN Raise
             ELSE ReadLoop(image, columns, size, Tail(ps),
                           Append(hashList, sha.val))

ReadFlakes(image, columns, ps) ==
    ReadLoop(image, columns, Width(image) \div columns, ps, <<>>)

(***************************************************************************)
(* The interactive program: one crystal, ticked with the humidity and      *)
(* temperature of the moment.                                              *)
(***************************************************************************)
Humidities == {0, 45000}
Temperatures == {-20000, -10000, -5000}
Deltas == {10, 20}

\* The settings: MaxGrowth 3 or 4, MaxBranching 2 or 3, branch crossing on
\* or off, and the out-of-range MaxGrowth 0 and -1. With a window of width
\* 0 the center is the origin, the one place where the sector test of
\* update lets a new root live.
Configs ==
    { [ thick |-> 100, growth |-> 300, maxCycles |-> 2, crossing |-> TRUE,
        size |-> 8 ],
      [ thick |-> 100, growth |-> 400, maxCycles |-> 2, crossing |-> TRUE,
        size |-> 8 ],
      [ thick |-> 100, growth |-> 300, maxCycles |-> 2, crossing |-> FALSE,
        size |-> 8 ],
      [ thick |-> 100, growth |-> 300, maxCycles |-> 2, crossing |-> FALSE,
        size |-> 0 ],
      [ thick |-> 100, growth |-> 300, maxCycles |-> 3, crossing |-> TRUE,
        size |-> 8 ],
      [ thick |-> 100, growth |-> 0, maxCycles |-> 2, crossing |-> TRUE,
        size |-> 8 ],
      [ thick |-> 100, growth |-> -100, maxCycles |-> 2, crossing |-> TRUE,
        size |-> 8 ] }

Idle == [ step |-> "idle" ]    \* a part of the program that is not running

NoCall == [ flake |-> 0, visited |-> <<>>, purged |-> <<>>,
            humidity |-> 0, temperature |-> 0, dt |-> 0, raised |-> FALSE ]

Init ==
    /\ cfg \in Configs
    /\ flakes = <<SnowflakeInit>>
    /\ nticks = 0
    /\ mapping = Idle
    /\ history = <<>>
    /\ last = NoCall
    /\ runs = <<>>
    /\ codec = Idle
    /\ collage = Idle

\* A call of update where cycles is an attribute of the class and not of
\* the instance: every crystal sees the count the call leaves behind.
CallUpdateSharedCycles(f, humidity, temperature, dt) ==
    /\ LET st == Update(flakes[f], humidity, temperature, dt)
       IN  /\ flakes' = [ g \in DOMAIN flakes |->
                            IF g = f THEN st.sf
                            ELSE [flakes[g] EXCEPT !.cycles = st.sf.cycles] ]
           /\ last' = [ flake |-> f,
                        visited |-> st.visited, purged |-> st.purged,
                        humidity |-> humidity, temperature |-> temperature,
                        dt |-> dt, raised |-> st.raised ]
    /\ nticks' = nticks + 1

\* A call of update on crystal f.
CallUpdate(f, humidity, temperature, dt) ==
    /\ LET st == Update(flakes[f], humidity, temperature, dt)
       IN  /\ flakes' = [flakes EXCEPT ![f] = st.sf]
           /\ last' = [ flake |-> f,
                        visited |-> st.visited, purged |-> st.purged,
                        humidity |-> humidity, temperature |-> temperature,
                        dt |-> dt, raised |-> st.raised ]
    /\ nticks' = nticks + 1

\* The main loop's call of update with the knobs' values.  An exception
\* of update is not caught and ends the loop.
Tick(f, humidity, temperature, dt) ==
    /\ nticks < MaxTicks
    /\ ~last.raised
    /\ CallUpdate(f, humidity, temperature, dt)
    /\ UNCHANGED <<mapping, history, cfg, runs, codec, collage>>

Next ==
    \E h \in Humidities, t \in Temperatures, dt \in Deltas : Tick(1, h, t, dt)

Spec == Init /\ [][Next]_vars

(***************************************************************************)
(* The replay program: flakeFromHash called on a digest, and then once     *)
(* more on the same digest with the same dt.                               *)
(***************************************************************************)
\* All sequences of n characters drawn from chars.
Strings(chars, n) == [ 1..n -> chars ]

IsDigest(sha) == Len(sha) = DigestLen /\ \A k \in DOMAIN sha : IsHex(sha[k])

ReplayChars == {"0", "7", "f"}

\* The digest whose humidity half repeats c1 and temperature half c2.
Uniform(c1, c2) == [ k \in 1..DigestLen |-> IF k <= HalfLen THEN c1 ELSE c2 ]

\* Strings that are not digests: too short (by one character, by half, or
\* empty), too long, or with a character that is not a hex digit.
MalformedDigests ==
    UNION { { SubSeq(d, 1, DigestLen - 1), SubSeq(d, 1, HalfLen), <<>>,
              d \o <<"f">>, <<"0">> \o d,
              [d EXCEPT ![1] = "g"], [d EXCEPT ![DigestLen] = "g"] }
            : d \in { Uniform(c1, c2) : c1 \in ReplayChars,
                                         c2 \in ReplayChars } }

ReplayDigests == Strings(ReplayChars, DigestLen) \cup MalformedDigests

ReplayDeltas == {10, 20}

\* PillowFlake's defaults (thickness 1, growth 20, max_cycles 9, branch
\* crossing), or growth=3 passed as a keyword; the image is as wide as the
\* digest needs, or two pixels wider.
ReplayConfigs ==
    { [ thick |-> 100, growth |-> g, maxCycles |-> 9, crossing |-> TRUE,
        size |-> s ] : g \in {300, 2000},
                       s \in {WindowPixels, WindowPixels + 2} }

InitReplay ==
    /\ cfg \in ReplayConfigs
    /\ flakes = <<>>
    /\ nticks = 0
    /\ mapping = Idle
    /\ history = <<>>
    /\ last = NoCall
    /\ runs = <<>>
    /\ codec = Idle
    /\ collage = Idle

\* flakeFromHash up to the creation of the crystal.  The second call
\* repeats the arguments of the first.
ReplayStart(sha, dt) ==
    /\ \/ runs = <<>>
       \/ /\ Len(runs) = 1
          /\ runs[1].outcome # "running"
          /\ sha = runs[1].sha
          /\ dt = runs[1].dt
    /\ LET evo == EvoPairs(sha)
           run == [ sha |-> sha, dt |-> dt, calls |-> <<>> ]
       IN  IF ~evo.ok
           THEN /\ runs' = Append(runs, run @@ [ evo |-> <<>>, flake |-> 0,
                                                 outcome |-> "error",
                                                 image |-> <<>> ])
                /\ UNCHANGED flakes
           ELSE /\ runs' = Append(runs, run @@ [ evo |-> evo.val,
                                                 flake |-> Len(flakes) + 1,
                                                 outcome |-> "running",
                                                 image |-> <<>> ])
                /\ flakes' = Append(flakes, SnowflakeInit)
    /\ UNCHANGED <<mapping, history, cfg, nticks, last, codec, collage>>

\* One turn of the loop "for h, t in zip(evoH, evoT)".
ReplayTick ==
    /\ runs # <<>>
    /\ LET r == runs[Len(runs)]
       IN  /\ r.outcome = "running"
           /\ r.evo # <<>>
           /\ CallUpdate(r.flake, Head(r.evo)[1], Head(r.evo)[2], r.dt)
           /\ runs' = [runs EXCEPT ![Len(runs)] =
                         [r EXCEPT !.evo = Tail(@),
                                   !.calls = Append(@, <<Head(r.evo)[1],
                                                         Head(r.evo)[2],
                                                         r.dt>>),
                                   !.outcome = IF last'.raised THEN "error"
                                               ELSE @]]
    /\ UNCHANGED <<mapping, history, cfg, codec, collage>>

\* The tail of flakeFromHash: the crystal is painted once more and the
\* digest is embedded in its image.
ReplayFinish ==
    /\ runs # <<>>
    /\ LET r == runs[Len(runs)]
           steg_image == Hash2Img(PillowFlakeImage, r.sha)
       IN  /\ r.outcome = "running"
           /\ r.evo = <<>>
           /\ runs' = [runs EXCEPT ![Len(runs)] =
                         IF DrawBranches(flakes[r.flake]).ok /\ steg_image.ok
                         THEN [r EXCEPT !.outcome = "image",
                                        !.image = steg_image.val]
                         ELSE [r EXCEPT !.outcome = "error"]]
    /\ UNCHANGED <<mapping, history, cfg, flakes, nticks, last, codec, collage>>

NextReplay ==
    \/ \E sha \in ReplayDigests, dt \in ReplayDeltas : ReplayStart(sha, dt)
    \/ ReplayTick
    \/ ReplayFinish

SpecReplay == InitReplay /\ [][NextReplay]_vars

(***************************************************************************)
(* The codec program: hash2Img called on an image and a string, and        *)
(* img2Hash called on the image it returned or on the image as loaded.     *)
(***************************************************************************)
CodecChars == {"0", "5", "a", "f"}

\* Digests, and strings one character short, half as long and one
\* character long.
CodecDigests ==
    Strings(CodecChars, DigestLen)
        \cup { SubSeq(d, 1, DigestLen - 1) : d \in { Uniform("5", "a") } }
        \cup { SubSeq(d, 1, HalfLen) : d \in { Uniform("5", "a") } }
        \cup { <<c>> \o Uniform("5", "a") : c \in {"0", "5", "f"} }
        \cup { [Uniform("5", "a") EXCEPT ![HalfLen] = "g"] }

\* Images of one or two lines, as wide as a digest needs, one pixel
\* narrower or one pixel wider.
CodecImages ==
    { Canvas(w, h, pat) : w \in {WindowPixels - 1, WindowPixels,
                                WindowPixels + 1},
                          h \in {1, 2},
                          pat \in {"white", "noise"} }

\* Positions (lin, col) handed to img2Hash.
CodecPositions == { <<0, 0>>, <<0, 1>>, <<1, 0>>, <<0, -1>> }

InitCodec ==
    /\ cfg = [ thick |-> 100, growth |-> 2000, maxCycles |-> 9,
               crossing |-> TRUE, size |-> WindowPixels ]
    /\ flakes = <<>>
    /\ nticks = 0
    /\ mapping = Idle
    /\ history = <<>>
    /\ last = NoCall
    /\ runs = <<>>
    /\ \E image \in CodecImages, sha \in CodecDigests :
           codec = [ step |-> "loaded", image |-> image, sha |-> sha ]
    /\ collage = Idle

\* A call of hash2Img.
Embed ==
    /\ codec.step = "loaded"
    /\ codec' = [ step |-> "embedded", image |-> codec.image,
                  sha |-> codec.sha,
                  steg |-> Hash2Img(codec.image, codec.sha) ]
    /\ UNCHANGED <<mapping, history, cfg, flakes, nticks, last, runs, collage>>

\* A call of img2Hash on the image that hash2Img returned.
Extract(pos) ==
    /\ codec.step = "embedded"
    /\ codec.steg.ok
    /\ codec' = [ step |-> "extracted", image |-> codec.image,
                  sha |-> codec.sha, steg |-> codec.steg,
                  source |-> codec.steg.val, pos |-> pos,
                  out |-> Img2Hash(codec.steg.val, pos) ]
    /\ UNCHANGED <<mapping, history, cfg, flakes, nticks, last, runs, collage>>

\* A call of img2Hash on the image as loaded.
ExtractLoaded(pos) ==
    /\ codec.step = "loaded"
    /\ codec' = [ step |-> "extracted", image |-> codec.image,
                  sha |-> codec.sha, steg |-> Raise,
                  source |-> codec.image, pos |-> pos,
                  out |-> Img2Hash(codec.image, pos) ]
    /\ UNCHANGED <<mapping, history, cfg, flakes, nticks, last, runs, collage>>

NextCodec ==
    \/ Embed
    \/ \E pos \in CodecPositions : Extract(pos)
    \/ \E pos \in CodecPositions : ExtractLoaded(pos)

SpecCodec == InitCodec /\ [][NextCodec]_vars

(***************************************************************************)
(* The collage program: collageFromHashList called with rows, columns and  *)
(* size, and readFlakes called on its collage with the same columns.       *)
(***************************************************************************)
CollagePool ==
    << Uniform("0", "7"), Uniform("7", "f"), Uniform("f", "0"),
       Uniform("7", "0"), Uniform("f", "f") >>

\* The list of n digests that starts at entry k of the pool.
HashList(n, k) ==
    [ i \in 1..n |-> CollagePool[((i + k - 2) % Len(CollagePool)) + 1] ]

\* What hashSeed('random', True) may return.
RandomDigests == { CollagePool[1], CollagePool[Len(CollagePool)] }

InitCollage ==
    /\ cfg \in { [ thick |-> 100, growth |-> 2000, maxCycles |-> 9,
                   crossing |-> TRUE, size |-> s ]
                 : s \in {WindowPixels, WindowPixels + 1} }
    /\ flakes = <<>>
    /\ nticks = 0
    /\ mapping = Idle
    /\ history = <<>>
    /\ last = NoCall
    /\ runs = <<>>
    /\ codec = Idle
    /\ \E rows \in 1..MaxGrid, columns \in 1..MaxGrid, k \in 1..2,
          n \in 0..(MaxGrid * MaxGrid + 1), bad \in BOOLEAN :
           /\ n \in {rows * columns - 1, rows * columns, rows * columns + 1}
           /\ bad => n = rows * columns /\ k = 1
           /\ collage =
                [ step |-> "packing", rows |-> rows, columns |-> columns,
                  size |-> cfg.size,
                  hash_list |->
                      IF bad
                      THEN [HashList(n, k) EXCEPT ![n] = SubSeq(@, 1, HalfLen)
                                                          \o <<"g">>]
                      ELSE HashList(n, k),
                  image |-> Canvas(cfg.size * columns, cfg.size * rows,
                                   "black"),
                  i |-> 0, j |-> 0, h |-> 0, pasted |-> <<>> ]

\* (Image.new with color=None gives a black image; every pixel of it is
\* pasted over before the collage is returned.)
\* One turn of the loops "for i in range(rows): for j in range(columns)" of
\* collageFromHashList: the next flake is made and pasted.
CollagePaste(random) ==
    /\ collage.step = "packing"
    /\ collage.i < collage.rows
    /\ LET c == collage
           sha == IF c.h < Len(c.hash_list) THEN c.hash_list[c.h + 1]
                  ELSE random
           flakeimg == FlakeFromHash(sha, 10)
           last_j == c.j + 1 = c.columns
       IN  collage' =
             IF ~flakeimg.ok THEN [c EXCEPT !.step = "error"]
             ELSE [c EXCEPT
                     !.image = Paste(@, flakeimg.val.image,
                                     c.size * c.j, c.size * c.i),
                     !.pasted = Append(@, [ i |-> c.i, j |-> c.j,
                                            sha |-> sha ]),
                     !.h = @ + 1,
                     !.j = IF last_j THEN 0 ELSE @ + 1,
                     !.i = IF last_j THEN @ + 1 ELSE @,
                     !.step = IF last_j /\ c.i + 1 = c.rows
                              THEN "packed" ELSE "packing"]
    /\ UNCHANGED <<mapping, history, cfg, flakes, nticks, last, runs, codec>>

\* readFlakes(image, columns=columns, flakes=[p]) on the finished collage.
CollageRead(p) ==
    /\ collage.step = "packed"
    /\ p <= collage.rows * collage.columns + 1
    /\ collage' = [collage EXCEPT !.step = "read"] @@
                  [ p |-> p,
                    out |-> ReadFlakes(collage.image, collage.columns,
                                       <<p>>) ]
    /\ UNCHANGED <<mapping, history, cfg, flakes, nticks, last, runs, codec>>

NextCollage ==
    \/ \E random \in RandomDigests : CollagePaste(random)
    \/ \E p \in -1..(MaxGrid * MaxGrid + 1) : CollageRead(p)

SpecCollage == InitCollage /\ [][NextCollage]_vars

(***************************************************************************)
(* evoVal on its own: a string and a target range, then the call.          *)
(***************************************************************************)
MappingChars == {"0", "1", "7", "8", "f", "g"}

\* Strings up to half a digest long, and the sixteen hex digits in order.
MappingStrings ==
    UNION { Strings(MappingChars, n) : n \in 0..HalfLen } \cup { HexDigits }

\* Target bounds in 1/1000000: -20, -5, 0, 0.0004, 0.0016 and 100.
MappingTargets == { -20000000, -5000000, 0, 400, 1600, 100000000 }

InitMapping ==
    /\ cfg = [ thick |-> 100, growth |-> 2000, maxCycles |-> 9,
               crossing |-> TRUE, size |-> WindowPixels ]
    /\ flakes = <<>>
    /\ nticks = 0
    /\ mapping \in [ step : {"called"}, hex_string : MappingStrings,
                      target_min : MappingTargets,
                      target_max : MappingTargets ]
    /\ history = <<>>
    /\ last = NoCall
    /\ runs = <<>>
    /\ codec = Idle
    /\ collage = Idle

\* evoVal returns or raises.
CallEvoVal ==
    /\ mapping.step = "called"
    /\ mapping' = [ step |-> "returned", hex_string |-> mapping.hex_string,
                    target_min |-> mapping.target_min,
                    target_max |-> mapping.target_max,
                    out |-> EvoVal(mapping.hex_string, mapping.target_min,
                                   mapping.target_max) ]
    /\ UNCHANGED <<history, cfg, flakes, nticks, last, runs, codec, collage>>

NextMapping == CallEvoVal

SpecMapping == InitMapping /\ [][NextMapping]_vars

(***************************************************************************)
(* Two crystals in one process, ticked in any interleaving, as the flakes  *)
(* of a collage or two sprites of the main loop are.  history records the  *)
(* calls of update in the order they were made.                            *)
(***************************************************************************)
PairHumidities == {0}
PairTemperatures == {-20000, -10000}
PairDeltas == {10, 20}

PairConfigs ==
    { c \in Configs : c.growth = 300 /\ c.crossing /\ c.size = 8 }

InitPair ==
    /\ cfg \in PairConfigs
    /\ flakes = <<SnowflakeInit, SnowflakeInit>>
    /\ nticks = 0
    /\ mapping = Idle
    /\ history = <<>>
    /\ last = NoCall
    /\ runs = <<>>
    /\ codec = Idle
    /\ collage = Idle

\* One of the two crystals is updated.
PairTick(f, humidity, temperature, dt) ==
    /\ nticks < MaxTicks
    /\ ~last.raised
    /\ CallUpdate(f, humidity, temperature, dt)
    /\ history' = Append(history, <<f, humidity, temperature, dt>>)
    /\ UNCHANGED <<mapping, cfg, runs, codec, collage>>

NextPair ==
    \E f \in 1..2, h \in PairHumidities, t \in PairTemperatures,
       dt \in PairDeltas : PairTick(f, h, t, dt)

SpecPair == InitPair /\ [][NextPair]_vars

(***************************************************************************)
(* One crystal with the growth of PillowFlake (20) and room for 12 branch   *)
(* events, ticked long enough in the cold for a chain of lines as deep as  *)
(* the limit on children allows.                                           *)
(***************************************************************************)
DeepHumidities == {0}
DeepTemperatures == {-20000, -10000}
DeepDeltas == {20}

DeepConfigs ==
    { [ thick |-> 100, growth |-> 2000, maxCycles |-> 12, crossing |-> TRUE,
        size |-> 8 ],
      [ thick |-> 100, growth |-> 2000, maxCycles |-> 12, crossing |-> FALSE,
        size |-> 0 ],
      [ thick |-> 100, growth |-> 2000, maxCycles |-> 3, crossing |-> TRUE,
        size |-> 8 ] }

InitDeep ==
    /\ cfg \in DeepConfigs
    /\ flakes = <<SnowflakeInit>>
    /\ nticks = 0
    /\ mapping = Idle
    /\ history = <<>>
    /\ last = NoCall
    /\ runs = <<>>
    /\ codec = Idle
    /\ collage = Idle

DeepTick(humidity, temperature, dt) ==
    /\ nticks < MaxDeepTicks
    /\ ~last.raised
    /\ CallUpdate(1, humidity, temperature, dt)
    /\ UNCHANGED <<mapping, history, cfg, runs, codec, collage>>

NextDeep ==
    \E h \in DeepHumidities, t \in DeepTemperatures, dt \in DeepDeltas :
        DeepTick(h, t, dt)

SpecDeep == InitDeep /\ [][NextDeep]_vars

(***************************************************************************)
(* Properties of the growth engine.                                        *)
(***************************************************************************)
Root == 1    \* the id of the Line that Snowflake.__init__ creates

Count(s, x) == Cardinality({k \in DOMAIN s : s[k] = x})

Children(sf, l) == sf.nodes[l].children

\* The crystal the last update call worked on.
Ticked == flakes[last.flake]

\* C5 as stated, for the purges by budget exhaustion (branch crossing
\* enabled, so that no line is purged on sector grounds): after a tick, every
\* child of a line purged by that tick is in branch (activeNodes) with
\* parent = None.
C5_ChildrenOfPurgedStayActive ==
    (last.flake # 0 /\ cfg.crossing) =>
        \A k \in DOMAIN last.purged :
            \A j \in DOMAIN Children(Ticked, last.purged[k]) :
                LET c == Children(Ticked, last.purged[k])[j]
                IN  InList(Ticked.branch, c) /\ Ticked.nodes[c].parent = NoLine

\* C5 amended: a purge takes exactly the purged line out of branch. In every
\* tick the lines that leave branch are exactly those the loop purged at
\* their own visit, one removal each; every child of a purged line has
\* parent = None afterwards, and a child that was in branch before the tick
\* is still there unless its own visit in that tick purged it.
C5_PurgeRemovesOnlyThatLine ==
    [][ \A f \in DOMAIN flakes :
          (last'.flake = f /\ f \in DOMAIN flakes') =>
            LET old == flakes[f]
                new == flakes'[f]
            IN  /\ \A l \in DOMAIN old.nodes :
                      (InList(old.branch, l) /\ ~InList(new.branch, l))
                          => InList(last'.purged, l)
                /\ Len(new.branch) = Len(old.branch)
                                     + (Len(new.nodes) - Len(old.nodes))
                                     - Len(last'.purged)
                /\ \A k \in DOMAIN last'.purged :
                      \A j \in DOMAIN Children(new, last'.purged[k]) :
                          LET c == Children(new, last'.purged[k])[j]
                          IN  /\ new.nodes[c].parent = NoLine
                              /\ InList(old.branch, c)
                                   => (InList(new.branch, c)
                                       \/ InList(last'.purged, c)) ]_vars

\* C5 witness: a tick purged an exhausted line (branch crossing enabled)
\* whose child is still in branch, orphaned.
C5_Witness ==
    /\ last.flake # 0
    /\ cfg.crossing
    /\ \E k \in DOMAIN last.purged :
          \E j \in DOMAIN Children(Ticked, last.purged[k]) :
              LET c == Children(Ticked, last.purged[k])[j]
              IN  InList(Ticked.branch, c) /\ Ticked.nodes[c].parent = NoLine

\* C6: the root is the only line with depth 0 and parent None; every other
\* line was created by exactly one branch event of a line one level above it
\* (it is in that line's children), and its parent reference is that line,
\* or None once that line has been purged.
C6_DepthIsParentDepthPlusOne ==
    \A f \in DOMAIN flakes :
        LET sf == flakes[f]
        IN  /\ sf.nodes[Root].depth = 0 /\ sf.nodes[Root].parent = NoLine
            /\ \A l \in DOMAIN sf.nodes :
                  l # Root =>
                    /\ sf.nodes[l].depth >= 1
                    /\ Cardinality({p \in DOMAIN sf.nodes :
                                       InList(Children(sf, p), l)}) = 1
                    /\ \A p \in DOMAIN sf.nodes :
                          InList(Children(sf, p), l) =>
                            /\ sf.nodes[l].depth = sf.nodes[p].depth + 1
                            /\ sf.nodes[l].parent \in {p, NoLine}
                            /\ sf.nodes[l].parent = NoLine
                                  => ~InList(sf.branch, p)

\* C6 witness: a line of depth 2 whose parent is intact beside a line
\* orphaned by a purge.
C6_Witness ==
    \E f \in DOMAIN flakes :
        \E l, m \in DOMAIN flakes[f].nodes :
            /\ flakes[f].nodes[l].depth = 2
            /\ flakes[f].nodes[l].parent # NoLine
            /\ m # Root
            /\ flakes[f].nodes[m].parent = NoLine

\* C7 as stated, for the configurations with branch crossing enabled: branch
\* (activeNodes) contains the root in every state.
C7_RootAlwaysActive ==
    cfg.crossing => \A f \in DOMAIN flakes : InList(flakes[f].branch, Root)

\* C7 amended: the root is in branch unless it has been purged like any
\* other line: its growth is exhausted and it has a child, or branch
\* crossing is disabled and its end fails the sector test.
C7_RootActiveUntilPurged ==
    \A f \in DOMAIN flakes :
        LET root == flakes[f].nodes[Root]
        IN  \/ InList(flakes[f].branch, Root)
            \/ root.growth <= 0 /\ Len(root.children) > 0
            \/ ~cfg.crossing /\ ~InSector(End(root))

\* C7 witness: with branch crossing enabled the root has left branch.
C7_Witness ==
    \E f \in DOMAIN flakes :
        cfg.crossing /\ ~InList(flakes[f].branch, Root)

\* C8 as stated: a line purged by a tick has growth <= 0 and a child.
C8_PurgedOnlyWhenExhaustedWithChild ==
    last.flake # 0 =>
        \A k \in DOMAIN last.purged :
            LET line == Ticked.nodes[last.purged[k]]
            IN  line.growth <= 0 /\ Len(line.children) > 0

\* C8 amended: a line leaves branch in a tick only if its growth is <= 0 and
\* it has a child, or if branch crossing is disabled and its end fails the
\* sector test; with branch crossing enabled a childless line never leaves.
C8_PurgedOnlyWhenExhaustedOrOutside ==
    [][ \A f \in DOMAIN flakes :
          (last'.flake = f /\ f \in DOMAIN flakes') =>
            \A l \in DOMAIN flakes[f].nodes :
                (InList(flakes[f].branch, l) /\ ~InList(flakes'[f].branch, l))
                  => LET line == flakes'[f].nodes[l]
                     IN  \/ line.growth <= 0 /\ Len(line.children) > 0
                         \/ ~cfg.crossing /\ ~InSector(End(line)) ]_vars

\* C8 witness: an exhausted childless line is still in branch after a tick
\* that visited it.
C8_Witness ==
    /\ last.flake # 0
    /\ \E k \in DOMAIN last.visited :
          LET l == last.visited[k]
          IN  /\ Ticked.nodes[l].growth <= 0
              /\ Len(Ticked.nodes[l].children) = 0
              /\ InList(Ticked.branch, l)
    /\ last.purged # <<>>

\* C9: every line that is in branch when update is called is visited by the
\* loop of that call exactly once.
C9_EveryActiveLineVisitedOnce ==
    [][ \A f \in DOMAIN flakes :
          (last'.flake = f /\ f \in DOMAIN flakes') =>
            \A k \in DOMAIN flakes[f].branch :
                Count(last'.visited, flakes[f].branch[k]) = 1 ]_vars

(***************************************************************************)
(* Properties of the codec.                                                *)
(***************************************************************************)
\* C1: for a digest (lowercase hex, of the digest's length) and an image at
\* least as wide as the digest's pixels and at least one line tall,
\* whatever its pixels, hash2Img returns an image, and img2Hash on that
\* image at position (0, 0) returns exactly the digest.
C1_CodecRoundTrip ==
    ( /\ codec.step \in {"embedded", "extracted"}
      /\ IsDigest(codec.sha)
      /\ Width(codec.image) >= WindowPixels
      /\ Height(codec.image) >= 1 )
    => /\ codec.step = "embedded" => codec.steg.ok
       /\ (codec.step = "extracted" /\ codec.steg.ok
              /\ codec.pos = <<0, 0>>)
            => codec.out = Return(codec.sha)

\* C1 witness: a digest with a leading zero and unequal bit pairs has been
\* embedded in an image of varied pixels, wider than needed and two lines
\* tall, and read back at (0, 0).
C1_Witness ==
    /\ codec.step = "extracted"
    /\ codec.steg.ok
    /\ IsDigest(codec.sha)
    /\ codec.pos = <<0, 0>>
    /\ codec.sha[1] = "0"
    /\ codec.sha[2] = "5"
    /\ codec.sha[DigestLen] = "a"
    /\ codec.image = Canvas(WindowPixels + 1, 2, "noise")
    /\ codec.out = Return(codec.sha)

\* C11: hash2Img on an image narrower than the digest's pixels raises and
\* returns no image, whatever the string; img2Hash at a position (lin, col)
\* from which fewer pixels than the digest's remain in the line (width - col
\* is less than the digest's pixels), or whose line is below the image,
\* raises and returns no digest.
C11_TooFewPixelsIsAnError ==
    /\ (codec.step = "embedded" /\ Width(codec.image) < WindowPixels)
         => ~codec.steg.ok
    /\ ( /\ codec.step = "extracted"
         /\ \/ codec.pos[1] >= Height(codec.source)
            \/ Width(codec.source) - codec.pos[2] < WindowPixels )
         => ~codec.out.ok

\* C11 witness: a digest was embedded in an image exactly as wide as it
\* needs, and img2Hash at column 1 of line 0 has raised.
C11_Witness ==
    /\ codec.step = "extracted"
    /\ codec.steg.ok
    /\ IsDigest(codec.sha)
    /\ Width(codec.source) = WindowPixels
    /\ codec.pos = <<0, 1>>
    /\ ~codec.out.ok

\* C13: hash2Img on a digest returns an image of the same size in which
\* pixel k of line 0 (k from 0, as many pixels as the digest needs) has bit
\* 2k of the big-endian digest as the low bit of red and bit 2k+1 as the
\* low bit of green, with the upper seven bits of red and green and the
\* blue channel as before; every other pixel is as before.
C13_EmbedWritesOnlyTheLowBits ==
    (codec.step = "embedded" /\ codec.steg.ok /\ IsDigest(codec.sha)) =>
        LET old == codec.image
            new == codec.steg.val
            bit(m) == (Nibble(codec.sha[(m \div 4) + 1])
                          \div (2 ^ (3 - (m % 4)))) % 2
        IN  /\ Height(new) = Height(old)
            /\ Width(new) = Width(old)
            /\ \A lin \in 1..Height(old), col \in 1..Width(old) :
                   IF lin = 1 /\ col <= WindowPixels
                   THEN /\ new[lin][col][1] % 2 = bit(2 * (col - 1))
                        /\ new[lin][col][2] % 2 = bit(2 * (col - 1) + 1)
                        /\ new[lin][col][1] \div 2 = old[lin][col][1] \div 2
                        /\ new[lin][col][2] \div 2 = old[lin][col][2] \div 2
                        /\ new[lin][col][3] = old[lin][col][3]
                   ELSE new[lin][col] = old[lin][col]

\* C13 witness: a digest of unequal bit pairs has been embedded in an image
\* of varied pixels, two lines tall and one pixel wider than needed.
C13_Witness ==
    /\ codec.step = "embedded"
    /\ codec.steg.ok
    /\ IsDigest(codec.sha)
    /\ codec.sha[1] = "5"
    /\ codec.sha[DigestLen] = "a"
    /\ codec.image = Canvas(WindowPixels + 1, 2, "noise")
    /\ codec.steg.val # codec.image

C10_MalformedDigestIsRejected ==
    \A r \in DOMAIN runs :
        ~IsDigest(runs[r].sha) =>
            /\ runs[r].calls = <<>>
            /\ runs[r].outcome # "image"

C12_IndexOutOfRangeIsAnError ==
    ( /\ collage.step = "read"
      /\ collage.p \notin 1..(collage.rows * collage.columns) )
    => ~collage.out.ok

(***************************************************************************)
(* Properties of evoVal.                                                   *)
(***************************************************************************)
\* C14 as stated: evoVal returns one value per character, nibble 0 gives
\* target_min and nibble 15 gives target_max, and with
\* target_min <= target_max every value lies in [target_min, target_max]
\* and the values do not decrease with the nibble.
C14_MapsOntoTheTargetRange ==
    (mapping.step = "returned" /\ mapping.out.ok) =>
        LET hex == mapping.hex_string
            val == mapping.out.val
        IN  /\ Len(val) = Len(hex)
            /\ \A k \in DOMAIN hex :
                   /\ Nibble(hex[k]) = 0 => 1000 * val[k] = mapping.target_min
                   /\ Nibble(hex[k]) = 15 => 1000 * val[k] = mapping.target_max
                   /\ mapping.target_min <= mapping.target_max =>
                          /\ mapping.target_min <= 1000 * val[k]
                          /\ 1000 * val[k] <= mapping.target_max
                          /\ \A j \in DOMAIN hex :
                                 Nibble(hex[j]) <= Nibble(hex[k])
                                     => val[j] <= val[k]

\* C14 amended: evoVal returns one value per character, in order, each the
\* interpolation target_min + nibble * (target_max - target_min) / 15
\* rounded to three decimals, so at most 0.0005 away from it: nibble 0
\* gives target_min and nibble 15 target_max up to that rounding, and
\* exactly when the bound has at most three decimals; with
\* target_min <= target_max every value is within 0.0005 of
\* [target_min, target_max] and the values do not decrease with the nibble.
C14_MapsOntoTheRoundedTargetRange ==
    (mapping.step = "returned" /\ mapping.out.ok) =>
        LET hex == mapping.hex_string
            val == mapping.out.val
            lo  == mapping.target_min
            hi  == mapping.target_max
        IN  /\ Len(val) = Len(hex)
            /\ \A k \in DOMAIN hex :
                   /\ Abs(15000 * val[k]
                           - (15 * lo + Nibble(hex[k]) * (hi - lo))) <= 7500
                   /\ (Nibble(hex[k]) = 0 /\ lo % 1000 = 0)
                          => 1000 * val[k] = lo
                   /\ (Nibble(hex[k]) = 15 /\ hi % 1000 = 0)
                          => 1000 * val[k] = hi
                   /\ lo <= hi =>
                          /\ lo - 500 <= 1000 * val[k]
                          /\ 1000 * val[k] <= hi + 500
                          /\ \A j \in DOMAIN hex :
                                 Nibble(hex[j]) <= Nibble(hex[k])
                                     => val[j] <= val[k]

\* C14 witness: evoVal has mapped the sixteen hex digits onto 0..100, and
\* digit 7 came out as 46.667.
C14_Witness ==
    /\ mapping.step = "returned"
    /\ mapping.out.ok
    /\ mapping.hex_string = HexDigits
    /\ mapping.target_min = 0
    /\ mapping.target_max = 100000000
    /\ mapping.out.val[1] = 0
    /\ mapping.out.val[8] = 46667
    /\ mapping.out.val[16] = 100000

(***************************************************************************)
(* Properties of the growth engine: errors, the branch counter, starts,    *)
(* several crystals, the depth gate and lengths.                           *)
(***************************************************************************)
\* C15 as stated: no call of update ends in an exception, and with a
\* MaxGrowth of 0 or less the crystal never grows: the root keeps length 0,
\* no line is created and cycles stays 0.
C15_UpdateNeverRaises ==
    /\ ~last.raised
    /\ cfg.growth <= 0 =>
           \A f \in DOMAIN flakes :
               /\ flakes[f].nodes[Root].length = 0
               /\ Len(flakes[f].nodes) = 1
               /\ flakes[f].cycles = 0

\* C16: in every state cycles (branchCount) of every crystal is between 0
\* and MAX_CYCLES, also after a tick in which several lines branch, and no
\* step lowers it.
C16_CyclesWithinMaximum ==
    [][ /\ \A f \in DOMAIN flakes :
              0 <= flakes[f].cycles /\ flakes[f].cycles <= cfg.maxCycles
        /\ \A f \in DOMAIN flakes' :
              /\ 0 <= flakes'[f].cycles
              /\ flakes'[f].cycles <= cfg.maxCycles
              /\ f \in DOMAIN flakes
                    => flakes[f].cycles <= flakes'[f].cycles ]_vars

\* C16 witness: two lines have branched in the tick just made, and cycles
\* has reached MAX_CYCLES.
C16_Witness ==
    /\ last.flake # 0
    /\ Ticked.cycles = cfg.maxCycles
    /\ \E a \in DOMAIN Ticked.nodes, b \in DOMAIN Ticked.nodes :
           /\ a # b
           /\ Ticked.nodes[a].children # <<>>
           /\ Ticked.nodes[b].children # <<>>
           /\ Ticked.nodes[a].lastChild = Ticked.elapsedTime
           /\ Ticked.nodes[b].lastChild = Ticked.elapsedTime

\* C17: a line created by a branch event starts at the end its parent has
\* at that event, and no later step changes the start of a line: not a
\* tick that lengthens the parent, and not the purge of the parent.
C17_StartIsASnapshot ==
    [][ \A f \in DOMAIN flakes' :
          \A n \in DOMAIN flakes'[f].nodes :
              LET line == flakes'[f].nodes[n]
              IN  IF f \in DOMAIN flakes /\ n \in DOMAIN flakes[f].nodes
                  THEN line.start = flakes[f].nodes[n].start
                  ELSE n # Root =>
                          /\ line.parent # NoLine
                          /\ line.start = End(flakes'[f].nodes[line.parent]) ]_vars

\* C17 witness: one child whose parent has grown since the branch event
\* (the parent no longer ends where the child starts), and one child whose
\* parent has been purged and that still starts away from the origin.
C17_Witness ==
    \E f \in DOMAIN flakes :
        \E a \in DOMAIN flakes[f].nodes, b \in DOMAIN flakes[f].nodes :
            /\ flakes[f].nodes[a].parent # NoLine
            /\ flakes[f].nodes[a].start
                   # End(flakes[f].nodes[flakes[f].nodes[a].parent])
            /\ flakes[f].nodes[b].depth > 0
            /\ flakes[f].nodes[b].parent = NoLine
            /\ flakes[f].nodes[b].start # <<0, 0>>

\* The crystal that results when a fresh crystal receives, alone, the calls
\* that the first n entries of history made on crystal f.
RECURSIVE Alone(_, _)
Alone(f, n) ==
    IF n = 0 THEN SnowflakeInit
    ELSE LET c == history[n]
         IN  IF c[1] = f
             THEN Update(Alone(f, n - 1), c[2], c[3], c[4]).sf
             ELSE Alone(f, n - 1)

C19_DepthGate ==
    [][ /\ \A f \in DOMAIN flakes :
              \A n \in DOMAIN flakes[f].nodes :
                  LET old == flakes[f].nodes[n]
                      new == flakes'[f].nodes[n]
                  IN  ( /\ old.growth > 0
                        /\ \/ new.length # old.length
                           \/ new.growth # old.growth
                           \/ new.buildup # old.buildup
                           \/ new.thick # old.thick
                           \/ new.children # old.children
                           \/ new.lastChild # old.lastChild )
                      => old.depth * 60000
                            >= Interp(last'.temperature, -5000, -20000,
                                      -60000, 45000 * flakes[f].cycles)
        /\ \A k \in 0..15, c \in {flakes[g].cycles : g \in DOMAIN flakes} :
              LET threshold == Interp(-5000 - 1000 * k, -5000, -20000,
                                      -60000, 45000 * c)
              IN  /\ k < 15 =>
                         threshold <= Interp(-5000 - 1000 * (k + 1), -5000,
                                             -20000, -60000, 45000 * c)
                  /\ c < cfg.maxCycles =>
                         threshold <= Interp(-5000 - 1000 * k, -5000, -20000,
                                             -60000, 45000 * (c + 1)) ]_vars

\* C19 witness: a tick without a branch event visited a line that has
\* growth left and lies below the threshold, and also a line at or above
\* the threshold that still has growth left, which therefore grew.
C19_Witness ==
    /\ last.flake # 0
    /\ \A m \in DOMAIN Ticked.nodes :
           ~(Ticked.nodes[m].children # <<>>
             /\ Ticked.nodes[m].lastChild = Ticked.elapsedTime)
    /\ \E n \in DOMAIN Ticked.nodes, m \in DOMAIN Ticked.nodes :
           /\ Count(last.visited, n) = 1
           /\ Count(last.visited, m) = 1
           /\ Ticked.nodes[n].growth > 0
           /\ Ticked.nodes[m].growth > 0
           /\ Ticked.nodes[n].depth * 60000
                  < Interp(last.temperature, -5000, -20000,
                           -60000, 45000 * Ticked.cycles)
           /\ Ticked.nodes[m].depth * 60000
                  >= Interp(last.temperature, -5000, -20000,
                            -60000, 45000 * Ticked.cycles)

\* C20: for a humidity between 0 and 100 and a temperature between -20 and
\* -5 the growth factor is between 0 and 1, and no tick makes a line
\* shorter.
C20_LengthNeverDecreases ==
    [][ /\ \A h \in {0, 25000, 50000, 75000, 100000},
              t \in {-20000, -15000, -10000, -5000} :
              /\ 0 <= GrowthInterp(h, t)
              /\ GrowthInterp(h, t) <= 1000000
        /\ \A f \in DOMAIN flakes :
              \A n \in DOMAIN flakes[f].nodes :
                  flakes'[f].nodes[n].length >= flakes[f].nodes[n].length ]_vars

\* C20 witness: a line that had grown before was visited by a tick with the
\* smallest growth factor (humidity 0, temperature -5), passed the depth
\* gate there, and has kept its length.
C20_Witness ==
    /\ last.flake # 0
    /\ last.humidity = 0
    /\ last.temperature = -5000
    /\ GrowthInterp(last.humidity, last.temperature) = 0
    /\ \E n \in DOMAIN Ticked.nodes :
           /\ Count(last.visited, n) = 1
           /\ Ticked.nodes[n].length > 0
           /\ Ticked.nodes[n].growth > 0
           /\ Ticked.nodes[n].lastChild < Ticked.elapsedTime - last.dt

(***************************************************************************)
(* Properties of the growth engine: the branch and thicken paths, branch   *)
(* events, exhausted lines, the renderer, the sector, the budget and the   *)
(* order of the visits.                                                    *)
(***************************************************************************)
\* C21: no tick both raises a line's buildup or its number of children and
\* raises its thick: a line takes the branch path or the thicken path, never
\* both.
C21_BranchOrThicken ==
    [][ \A f \in DOMAIN flakes :
          \A n \in DOMAIN flakes[f].nodes :
              LET old == flakes[f].nodes[n]
                  new == flakes'[f].nodes[n]
              IN  ~( /\ \/ new.buildup > old.buildup
                        \/ Len(new.children) > Len(old.children)
                     /\ new.thick > old.thick ) ]_vars

\* C21 witness: one line has taken both paths, in different ticks: it has a
\* child and it is thicker than it was created.
C21_Witness ==
    \E f \in DOMAIN flakes :
        \E n \in DOMAIN flakes[f].nodes :
            /\ flakes[f].nodes[n].children # <<>>
            /\ flakes[f].nodes[n].thick > cfg.thick

\* C22: a tick gives a line a new child only if, in that tick, the growth
\* factor is below 0.35, more than 1 unit of time has passed since the
\* line's lastChild, it has fewer than 8 - depth children, cycles is below
\* MAX_CYCLES, the temperature is at most -10, and buildup reaches 4.  The
\* event adds one child, one level deeper, turned by the branch angle,
\* put on the list of lines (where only its own visit can purge it), sets
\* the parent's buildup to 0 and its lastChild to elapsedTime, and raises
\* cycles by 1: cycles is always the number of lines made by branching.
C22_BranchEvent ==
    [][ \A f \in DOMAIN flakes :
          LET sf  == flakes[f]
              sf2 == flakes'[f]
          IN  /\ sf.cycles = Len(sf.nodes) - 1
              /\ sf2.cycles = Len(sf2.nodes) - 1
              /\ \A n \in DOMAIN sf.nodes :
                    LET old == sf.nodes[n]
                        new == sf2.nodes[n]
                        c   == new.children[Len(new.children)]
                    IN  Len(new.children) # Len(old.children) =>
                          /\ GrowthInterp(last'.humidity, last'.temperature)
                                < 350000
                          /\ sf2.elapsedTime - old.lastChild > 10
                          /\ Len(old.children) < 8 - old.depth
                          /\ sf.cycles < cfg.maxCycles
                          /\ last'.temperature <= -10000
                          /\ old.buildup + 2 * last'.dt >= 40
                          /\ new.children = Append(old.children, c)
                          /\ c \notin DOMAIN sf.nodes
                          /\ sf2.nodes[c].depth = old.depth + 1
                          /\ sf2.nodes[c].parent = n
                          /\ sf2.nodes[c].angle
                                = (old.angle
                                   - Interp(last'.temperature, -10000, -20000,
                                            20, 40)) % 240
                          /\ InList(sf2.branch, c) \/ InList(last'.purged, c)
                          /\ new.buildup = 0
                          /\ new.lastChild = sf2.elapsedTime
              /\ \A c \in DOMAIN sf2.nodes \ DOMAIN sf.nodes :
                    /\ sf2.nodes[c].children = <<>>
                    /\ \E n \in DOMAIN sf.nodes :
                          InList(sf2.nodes[n].children, c) ]_vars

\* C22 witness: the tick just made held a branch event, and the child is on
\* the list of lines.
C22_Witness ==
    /\ last.flake # 0
    /\ \E n \in DOMAIN Ticked.nodes :
           /\ Ticked.nodes[n].children # <<>>
           /\ Ticked.nodes[n].lastChild = Ticked.elapsedTime
           /\ Ticked.nodes[n].buildup = 0
           /\ InList(Ticked.branch,
                     Ticked.nodes[n].children[Len(Ticked.nodes[n].children)])

\* C23: a tick gives a line at most one child; lastChild is the time of the
\* line's latest branch event (a tick without an event leaves it alone);
\* and when a line that has branched before branches again, more than 1
\* unit of time lies between the two events.
C23_BranchRateLimit ==
    [][ \A f \in DOMAIN flakes :
          \A n \in DOMAIN flakes[f].nodes :
              LET old == flakes[f].nodes[n]
                  new == flakes'[f].nodes[n]
              IN  /\ Len(new.children) <= Len(old.children) + 1
                  /\ Len(new.children) >= Len(old.children)
                  /\ IF Len(new.children) > Len(old.children)
                     THEN /\ new.lastChild = flakes'[f].elapsedTime
                          /\ old.children # <<>> =>
                                new.lastChild - old.lastChild > 10
                     ELSE new.lastChild = old.lastChild ]_vars

\* C23 witness: the tick just made gave a line its second or later child.
C23_Witness ==
    /\ last.flake # 0
    /\ \E n \in DOMAIN Ticked.nodes :
           /\ Len(Ticked.nodes[n].children) >= 2
           /\ Ticked.nodes[n].lastChild = Ticked.elapsedTime

\* C24, as stated: a tick leaves the length, thick, buildup, growth and
\* children of a line whose growth is <= 0 as they are, and it takes such a
\* line off the list of lines only when the line has children.
C24_ExhaustedLineOnlyPurgedWithChildren ==
    [][ \A f \in DOMAIN flakes :
          \A n \in DOMAIN flakes[f].nodes :
              LET old == flakes[f].nodes[n]
                  new == flakes'[f].nodes[n]
              IN  old.growth <= 0 =>
                    /\ new.length = old.length
                    /\ new.thick = old.thick
                    /\ new.buildup = old.buildup
                    /\ new.growth = old.growth
                    /\ new.children = old.children
                    /\ (InList(flakes[f].branch, n)
                        /\ ~InList(flakes'[f].branch, n))
                          => old.children # <<>> ]_vars

\* C24, amended: a tick leaves the length, thick, buildup, growth and
\* children of a line whose growth is <= 0 as they are (and its angle,
\* depth, start and lastChild); it takes such a line off the list of lines
\* only when the line has children or, with BRANCH_CROSSING off, when its
\* end fails the sector test; and it changes its parent only to none, in
\* the tick that purges the parent.
C24_ExhaustedLineIsFrozen ==
    [][ \A f \in DOMAIN flakes :
          \A n \in DOMAIN flakes[f].nodes :
              LET old == flakes[f].nodes[n]
                  new == flakes'[f].nodes[n]
              IN  old.growth <= 0 =>
                    /\ [new EXCEPT !.parent = old.parent] = old
                    /\ (InList(flakes[f].branch, n)
                        /\ ~InList(flakes'[f].branch, n))
                          => \/ old.children # <<>>
                             \/ ~cfg.crossing /\ ~InSector(End(old))
                    /\ new.parent # old.parent
                          => /\ new.parent = NoLine
                             /\ InList(last'.purged, old.parent) ]_vars

\* C24 witness: the tick just made visited a childless line whose growth
\* was used up before, and left it on the list; and it purged another line
\* without growth, one that has children.
C24_Witness ==
    /\ last.flake # 0
    /\ \E n \in DOMAIN Ticked.nodes, m \in DOMAIN Ticked.nodes :
           /\ Count(last.visited, n) = 1
           /\ Ticked.nodes[n].growth <= 0
           /\ Ticked.nodes[n].children = <<>>
           /\ InList(Ticked.branch, n)
           /\ Ticked.nodes[m].growth <= 0
           /\ Ticked.nodes[m].children # <<>>
           /\ InList(last.purged, m)

\* C25: no tick lowers a line's thick, and a tick raises it only when the
\* growth factor is above 0.3, the humidity is above -4 * temperature and
\* below 50, and the line did not take the branch path (its buildup did not
\* rise and it got no child); then thick rises by 0.4 * dt.  A tick with a
\* temperature of -12.5 or less raises no thick.
C25_ThickOnlyByThickening ==
    [][ \A f \in DOMAIN flakes :
          \A n \in DOMAIN flakes[f].nodes :
              LET old == flakes[f].nodes[n]
                  new == flakes'[f].nodes[n]
              IN  /\ new.thick >= old.thick
                  /\ new.thick > old.thick =>
                        /\ GrowthInterp(last'.humidity, last'.temperature)
                              > 300000
                        /\ last'.humidity > -4 * last'.temperature
                        /\ last'.humidity < 50000
                        /\ new.buildup <= old.buildup
                        /\ new.children = old.children
                        /\ new.thick = old.thick + 4 * last'.dt
                  /\ last'.temperature <= -12500 => new.thick = old.thick ]_vars

\* C25 witness: the tick just made, with humidity 45 and temperature -5,
\* visited a line that was thickened before and still has growth left, so
\* that this tick thickened it again.
C25_Witness ==
    /\ last.flake # 0
    /\ last.humidity = 45000
    /\ last.temperature = -5000
    /\ \E n \in DOMAIN Ticked.nodes :
           /\ Count(last.visited, n) = 1
           /\ Ticked.nodes[n].growth > 0
           /\ Ticked.nodes[n].thick >= cfg.thick + 4 * last.dt + 40

\* The number of parent links from the line l up to a line without parent.
RECURSIVE Links(_, _)
Links(sf, l) ==
    IF sf.nodes[l].parent = NoLine THEN 0
    ELSE 1 + Links(sf, sf.nodes[l].parent)

\* C26: for every line on the list and each of the six offsets i*pi/3,
\* Line.draw emits 2^k different segments, k being the number of parent
\* links above the line: 2^depth when no ancestor was purged, and one, the
\* line itself, when the line has no parent.
C26_SegmentCount ==
    \A f \in DOMAIN flakes :
        \A k \in DOMAIN flakes[f].branch :
            \A i \in 0..5 :
                LET sf == flakes[f]
                    l  == sf.branch[k]
                    d  == LineDraw(sf, l, 40 * i)
                IN  /\ d.ok
                    /\ Len(d.val) = 2 ^ Links(sf, l)
                    /\ Cardinality({ d.val[j] : j \in DOMAIN d.val })
                          = Len(d.val)
                    /\ Links(sf, l) <= sf.nodes[l].depth
                    /\ sf.nodes[l].parent = NoLine
                          => d.val = << [ angle |-> 40 * i, mirrors |-> <<>> ] >>

\* C27: with BRANCH_CROSSING off, a tick purges a line it visits instead of
\* updating it exactly when the line's end, taken relative to the center,
\* lies outside the sector -y >= |x * tan(60 degrees)| (a line inside is
\* updated, and updateBranch purges it only when it has no growth left and
\* has children); so the first tick does not purge the root of a new
\* crystal.  With BRANCH_CROSSING on, a line is purged only by updateBranch.
C27_SectorTestInLocalCoordinates ==
    [][ \A f \in DOMAIN flakes :
          \A n \in DOMAIN flakes[f].nodes :
              LET old == flakes[f].nodes[n]
                  local == << End(old)[1] - flakes[f].center[1],
                              End(old)[2] - flakes[f].center[2] >>
                  exhausted == old.growth <= 0 /\ old.children # <<>>
              IN  (last'.flake = f /\ InList(last'.visited, n)) =>
                    /\ (~cfg.crossing /\ ~InSector(local))
                          => InList(last'.purged, n)
                    /\ (cfg.crossing \/ InSector(local))
                          => (InList(last'.purged, n) <=> exhausted)
                    /\ (nticks = 0 /\ n = Root)
                          => ~InList(last'.purged, n) ]_vars

\* The number of ticks of size dt that a line with this growth (in 1/100)
\* can still elongate in: ceil(growth / dt), and none without growth.
TicksLeft(growth, dt) ==
    IF growth <= 0 THEN 0 ELSE (growth + 10 * dt - 1) \div (10 * dt)

\* The smallest dt of the main loop.
MinDelta == CHOOSE d \in Deltas : \A e \in Deltas : d <= e

\* A bound on the ticks that can still change the crystal: the ticks left
\* to its lines, and those of the lines that branching can still add.
RECURSIVE SumTicksLeft(_, _)
SumTicksLeft(sf, n) ==
    IF n = 0 THEN 0
    ELSE TicksLeft(sf.nodes[n].growth, MinDelta) + SumTicksLeft(sf, n - 1)

Potential(sf) ==
    SumTicksLeft(sf, Len(sf.nodes))
    + (cfg.maxCycles - sf.cycles) * TicksLeft(cfg.growth, MinDelta)

\* C28: a tick that changes a line (its length, thick, buildup, children or
\* growth; every elongation does) finds it with growth left and lowers its
\* growth by dt, by 0.2*dt more when it spawns a child and by 0.1*dt more
\* when it thickens, so that the ticks of that size it has left,
\* ceil(growth / dt), fall by at least one, from ceil(budget / dt) for a new
\* line; and every tick that changes a length or the number of lines lowers
\* a bound that is never negative, so that only finitely many ticks do.
C28_GrowthBoundsActivity ==
    [][ \A f \in DOMAIN flakes :
          LET sf  == flakes[f]
              sf2 == flakes'[f]
              dt  == last'.dt
          IN  /\ \A n \in DOMAIN sf.nodes :
                    LET old == sf.nodes[n]
                        new == sf2.nodes[n]
                        spawned   == Len(new.children) > Len(old.children)
                        thickened == new.thick > old.thick
                    IN  IF /\ new.length = old.length
                           /\ new.thick = old.thick
                           /\ new.buildup = old.buildup
                           /\ new.children = old.children
                           /\ new.growth = old.growth
                        THEN TRUE
                        ELSE /\ old.growth > 0
                             /\ new.growth
                                   = old.growth - 10 * dt
                                     - (IF spawned THEN 2 * dt ELSE 0)
                                     - (IF thickened THEN dt ELSE 0)
                             /\ TicksLeft(new.growth, dt)
                                   <= TicksLeft(old.growth, dt) - 1
              /\ \A n \in DOMAIN sf2.nodes \ DOMAIN sf.nodes :
                    /\ sf2.nodes[n].growth <= cfg.growth
                    /\ TicksLeft(sf2.nodes[n].growth, dt)
                          <= TicksLeft(cfg.growth, dt)
              /\ Potential(sf) >= 0
              /\ Potential(sf2) >= 0
              /\ Potential(sf2) <= Potential(sf)
              /\ ( \/ Len(sf2.nodes) # Len(sf.nodes)
                   \/ \E n \in DOMAIN sf.nodes :
                         sf2.nodes[n].length # sf.nodes[n].length )
                    => Potential(sf2) < Potential(sf) ]_vars

\* C28 witness: a crystal that has branched and in which no line has
\* growth left, so that nothing can change its lengths or add a line.
C28_Witness ==
    /\ last.flake # 0
    /\ cfg.growth > 0
    /\ Len(Ticked.nodes) >= 2
    /\ \A n \in DOMAIN Ticked.nodes : Ticked.nodes[n].growth <= 0
    /\ \E n \in DOMAIN Ticked.nodes : Ticked.nodes[n].length > 0
    /\ Potential(Ticked) < TicksLeft(cfg.growth, MinDelta)

\* The place of the line n in the order of the list of lines during a tick
\* on the crystal sf: the lines of branch in their order, then the lines the
\* tick creates, in the order of their creation.
RECURSIVE IndexIn(_, _)
IndexIn(s, x) ==
    IF s = <<>> THEN 1
    ELSE IF Head(s) = x THEN 1
    ELSE 1 + IndexIn(Tail(s), x)

Place(sf, n) ==
    IF n \in DOMAIN sf.nodes THEN IndexIn(sf.branch, n)
    ELSE Len(sf.branch) + n

\* C29: a tick visits lines in the order of the list; a line spawned in the
\* tick is visited in that same tick, after its parent (where it may
\* already grow), and since its lastChild is the tick's elapsedTime it gets
\* no child in that tick.
C29_ChildVisitedInItsFirstTick ==
    [][ \A f \in DOMAIN flakes :
          last'.flake = f =>
            /\ \A i \in DOMAIN last'.visited, j \in DOMAIN last'.visited :
                  i < j => Place(flakes[f], last'.visited[i])
                             < Place(flakes[f], last'.visited[j])
            /\ \A c \in DOMAIN flakes'[f].nodes \ DOMAIN flakes[f].nodes :
                  LET child == flakes'[f].nodes[c]
                  IN  /\ InList(last'.visited, c)
                      /\ InList(last'.visited, child.parent)
                      /\ IndexIn(last'.visited, child.parent)
                            < IndexIn(last'.visited, c)
                      /\ child.lastChild = flakes'[f].elapsedTime
                      /\ child.children = <<>> ]_vars

(***************************************************************************)
(* Properties of the crystal grown deep.                                   *)
(***************************************************************************)
\* C30: in every state a line of depth d has at most max(0, 8 - d)
\* children, no line is deeper than 8, and the list of lines holds at most
\* MAX_CYCLES + 1 lines.
C30_ChildrenAndDepthLimits ==
    \A f \in DOMAIN flakes :
        /\ \A n \in DOMAIN flakes[f].nodes :
              LET line == flakes[f].nodes[n]
              IN  /\ Len(line.children)
                        <= (IF 8 - line.depth > 0 THEN 8 - line.depth ELSE 0)
                  /\ line.depth <= 8
        /\ Len(flakes[f].branch) <= cfg.maxCycles + 1

\* C30 witness: there is a line of depth 7 with its one child, and a tick
\* has visited a line of depth 8, which has no child, when everything else
\* that a branch event needs was there: growth, the depth gate, the growth
\* factor, the temperature, the time since lastChild and cycles below
\* MAX_CYCLES.
C30_Witness ==
    /\ last.flake # 0
    /\ last.temperature <= -10000
    /\ GrowthInterp(last.humidity, last.temperature) < 350000
    /\ Ticked.cycles < cfg.maxCycles
    /\ \E a \in DOMAIN Ticked.nodes, b \in DOMAIN Ticked.nodes :
           /\ Ticked.nodes[a].depth = 7
           /\ Len(Ticked.nodes[a].children) = 1
           /\ Ticked.nodes[b].depth = 8
           /\ Ticked.nodes[b].children = <<>>
           /\ Count(last.visited, b) = 1
           /\ Ticked.nodes[b].growth > 0
           /\ Ticked.elapsedTime - Ticked.nodes[b].lastChild > 10
           /\ Ticked.nodes[b].depth * 60000
                 >= Interp(last.temperature, -5000, -20000, -60000,
                           45000 * Ticked.cycles)

====
